---- MODULE Spec2Model ----
(***************************************************************************)
(* The ingestion pipeline of newsfinder (src/src/pipeline.py) with the     *)
(* article store (src/src/database/chroma_client.py), the primary scoring  *)
(* oracle (src/src/analysis/llm_client.py) and the verification sampler    *)
(* (src/src/analysis/verification_service.py).                             *)
(*                                                                         *)
(* Two threads call the pipeline: the scheduler thread runs                *)
(* IngestionPipeline.run (src/src/main.py, run_pipeline_job) and a web     *)
(* request thread calls process_article and reprocess_article              *)
(* (src/src/web/routes/api.py, articles.py).  A call is cut into steps at  *)
(* its accesses to shared state: the store read of the dedup check, the    *)
(* oracle calls with the verification log append, the store write, and     *)
(* the alert log append.                                                   *)
(*                                                                         *)
(* Python dicts are functions with a varying domain; Get is dict.get.      *)
(* Text is a sequence of one-character strings so that lower() and the     *)
(* substring test are computed.  An exception that leaves a method is the  *)
(* result status "raised".                                                 *)
(***************************************************************************)
EXTENDS Integers, Sequences, FiniteSets, TLC

\* ---- bounds of the exploration ----
MaxCalls == 2      \* calls of the web thread, one after the other
MaxRuns == 1       \* run() calls of the scheduler thread
MaxScrapes == 3    \* calls of the scraper
MaxTicks == 2      \* advances of the clock
MaxRequests == 2   \* requests to the prompt optimizer
MaxChanges == 1    \* calls of log_change on drawn records
MaxSaves == 2      \* calls of save_articles
MaxBatch == 2      \* entries the feeds offer to one fetch()
Scale == 2         \* random.random() is k/Scale, a sampling rate r is r/Scale

\* ---- values ----
Workers == {"scheduler", "web"}
URLs == {"u1", "u2"}

\* the link of an article posted without one: the empty string, falsy in Python
EmptyLink == ""

\* a score that json.loads produced as a string or null instead of a number
NonInt == 1000

None == "None"

\* dict.get(key, default)
Get(d, k, default) == IF k \in DOMAIN d THEN d[k] ELSE default

\* hashlib.sha256(url.encode("utf-8")).hexdigest(): injective on the URLs used
_article_id(url) == <<"sha256", url>>

\* ---- text ----
Chars == {"a", "i", "x", "A", "I"}

\* str.lower() on one character
LowerChar(c) == CASE c = "A" -> "a" [] c = "I" -> "i" [] OTHER -> c

\* str.lower()
Lower(s) == [i \in 1..Len(s) |-> LowerChar(s[i])]

\* needle in hay (Python substring test)
Contains(hay, needle) ==
    \E i \in 0..(Len(hay) - Len(needle)) :
        SubSeq(hay, i + 1, i + Len(needle)) = needle

\* article texts offered to the pipeline
Contents == { <<"x", "A", "i">>, <<"a", "x", "i">> }

\* pipeline.keywords of config.yaml
KeywordLists == { <<>>, << <<"A", "I">> >> }

\* ---- configuration ----
\* pipeline.alert_threshold (defaults 7 and 7)
DefaultRelevanceCutoff == 7
DefaultImpactCutoff == 7
AlertThresholds == { [relevance |-> DefaultRelevanceCutoff, impact |-> DefaultImpactCutoff],
                     [relevance |-> 6, impact |-> 9] }

\* verification section of the config with the OPENROUTER_API_KEY environment
VerificationConfigs ==
    { [enabled |-> e, api_key |-> k, rate_interesting |-> ri, rate_random |-> rr] :
        e \in BOOLEAN, k \in BOOLEAN, ri \in {Scale}, rr \in {0} }
    \cup
    { [enabled |-> TRUE, api_key |-> TRUE, rate_interesting |-> 1, rate_random |-> 1] }
    \cup
    { [enabled |-> off[1], api_key |-> off[2],
       rate_interesting |-> Scale, rate_random |-> Scale] :
        off \in {<<FALSE, TRUE>>, <<TRUE, FALSE>>} }

Configs ==
    { [keywords |-> kw, alert_threshold |-> at, verification |-> v] :
        kw \in KeywordLists, at \in AlertThresholds, v \in VerificationConfigs }

\* ---- the primary scoring oracle (OllamaClient) ----
\* what generate_json can hand to analyze_article: {} on any failure (network
\* error, timeout, non-200, unparseable JSON), else the parsed JSON object
PrimaryResponses ==
    { <<>>,
      [summary |-> "s1", relevance_score |-> 7, relevance_reasoning |-> "r1", impact_score |-> 7],
      [summary |-> "s2", relevance_score |-> 6, relevance_reasoning |-> "r2", impact_score |-> 9],
      [summary |-> "s3", relevance_score |-> 8, relevance_reasoning |-> "r3", impact_score |-> 6],
      [summary |-> "s4"],
      [summary |-> "s5", relevance_score |-> NonInt, relevance_reasoning |-> "r5", impact_score |-> 7],
      [summary |-> "s6", relevance_score |-> 11, relevance_reasoning |-> "r6", impact_score |-> 7] }

\* analyze_article without the branch for an empty response
analyze_article_NoFallback(response) ==
    [summary |-> Get(response, "summary", "No summary generated"),
     relevance_score |-> Get(response, "relevance_score", 0),
     relevance_reasoning |-> Get(response, "relevance_reasoning", ""),
     impact_score |-> Get(response, "impact_score", 0)]

\* OllamaClient.analyze_article, from the response of generate_json on
analyze_article(response) ==
    IF DOMAIN response = {}
    THEN [summary |-> "LLM analysis unavailable",
          relevance_score |-> 0,
          relevance_reasoning |-> "Analysis failed",
          impact_score |-> 0]
    ELSE [summary |-> Get(response, "summary", "No summary generated"),
          relevance_score |-> Get(response, "relevance_score", 0),
          relevance_reasoning |-> Get(response, "relevance_reasoning", ""),
          impact_score |-> Get(response, "impact_score", 0)]

\* ---- the reference model (OpenRouterClient) and the verification sampler ----
\* OpenRouterClient.analyze_article: {} on failure, else the parsed JSON object
ReferenceResponses ==
    { <<>>,
      [relevance_score |-> 3, relevance_reasoning |-> "q3"],
      [relevance_score |-> 7, relevance_reasoning |-> "q7"],
      [relevance_score |-> NonInt, relevance_reasoning |-> "q"] }

\* values of random.random(), in units of 1/Scale: 0 <= random() < 1
Randoms == 0..(Scale - 1)

\* local_score >= 7 raises TypeError when the score is no number
should_verify_raises(vcfg, local_result) ==
    /\ vcfg.enabled /\ vcfg.api_key
    /\ Get(local_result, "relevance_score", 0) = NonInt

\* should_verify with random.random() <= rate in place of <
should_verify_Inclusive(vcfg, local_result, rnd) ==
    IF ~vcfg.enabled \/ ~vcfg.api_key
    THEN FALSE
    ELSE IF Get(local_result, "relevance_score", 0) >= 7
         THEN rnd <= vcfg.rate_interesting
         ELSE rnd <= vcfg.rate_random

\* should_verify without the check of the switch and the API key
should_verify_AnyConfig(vcfg, local_result, rnd) ==
    IF Get(local_result, "relevance_score", 0) >= 7
    THEN rnd < vcfg.rate_interesting
    ELSE rnd < vcfg.rate_random

\* VerificationService.should_verify, rnd the value random.random() returns
should_verify(vcfg, local_result, rnd) ==
    IF ~vcfg.enabled \/ ~vcfg.api_key
    THEN FALSE
    ELSE IF Get(local_result, "relevance_score", 0) >= 7
         THEN rnd < vcfg.rate_interesting
         ELSE rnd < vcfg.rate_random

Abs(n) == IF n < 0 THEN 0 - n ELSE n

\* the significance threshold of a discrepancy
FlagThreshold == 4

\* verify flagging only a discrepancy above the threshold
verify_FlagsAbove(vcfg, article, local_result, rnd, remote_result) ==
    LET local_score == Get(local_result, "relevance_score", 0)
        remote_score == Get(remote_result, "relevance_score", 0)
        discrepancy == Abs(local_score - remote_score)
    IN  IF should_verify_raises(vcfg, local_result)
        THEN [outcome |-> "raised", sampled |-> FALSE]
        ELSE IF ~should_verify(vcfg, local_result, rnd)
        THEN [outcome |-> "none", sampled |-> FALSE]
        ELSE IF DOMAIN remote_result = {}
        THEN [outcome |-> "none", sampled |-> TRUE]
        ELSE IF local_score = NonInt \/ remote_score = NonInt
        THEN [outcome |-> "raised", sampled |-> TRUE]
        ELSE [outcome |-> "record", sampled |-> TRUE,
              record |-> [article_url |-> article.link,
                          local_score |-> local_score,
                          remote_score |-> remote_score,
                          discrepancy |-> discrepancy,
                          flagged |-> (discrepancy > FlagThreshold)]]

\* verify building a record only for a flagged discrepancy
verify_OnlyFlagged(vcfg, article, local_result, rnd, remote_result) ==
    LET local_score == Get(local_result, "relevance_score", 0)
        remote_score == Get(remote_result, "relevance_score", 0)
        discrepancy == Abs(local_score - remote_score)
    IN  IF should_verify_raises(vcfg, local_result)
        THEN [outcome |-> "raised", sampled |-> FALSE]
        ELSE IF ~should_verify(vcfg, local_result, rnd)
        THEN [outcome |-> "none", sampled |-> FALSE]
        ELSE IF DOMAIN remote_result = {}
        THEN [outcome |-> "none", sampled |-> TRUE]
        ELSE IF local_score = NonInt \/ remote_score = NonInt
        THEN [outcome |-> "raised", sampled |-> TRUE]
        ELSE IF discrepancy < FlagThreshold
        THEN [outcome |-> "none", sampled |-> TRUE]
        ELSE [outcome |-> "record", sampled |-> TRUE,
              record |-> [article_url |-> article.link,
                          local_score |-> local_score,
                          remote_score |-> remote_score,
                          discrepancy |-> discrepancy,
                          flagged |-> TRUE]]

\* VerificationService.verify up to the log write: what it decides for the
\* article, the primary judgment, the random draw and the reference response.
\* outcome "raised": a TypeError leaves verify; "none": it returns None;
\* "record": it builds `record` and hands it to _log_verification.
verify(vcfg, article, local_result, rnd, remote_result) ==
    LET local_score == Get(local_result, "relevance_score", 0)
        remote_score == Get(remote_result, "relevance_score", 0)
        discrepancy == Abs(local_score - remote_score)
    IN  IF should_verify_raises(vcfg, local_result)
        THEN [outcome |-> "raised", sampled |-> FALSE]
        ELSE IF ~should_verify(vcfg, local_result, rnd)
        THEN [outcome |-> "none", sampled |-> FALSE]
        ELSE IF DOMAIN remote_result = {}
        THEN [outcome |-> "none", sampled |-> TRUE]
        ELSE IF local_score = NonInt \/ remote_score = NonInt
        THEN [outcome |-> "raised", sampled |-> TRUE]
        ELSE [outcome |-> "record", sampled |-> TRUE,
              record |-> [article_url |-> article.link,
                          local_score |-> local_score,
                          remote_score |-> remote_score,
                          discrepancy |-> discrepancy,
                          flagged |-> (discrepancy >= FlagThreshold)]]

\* ---- the article store (NewsDatabase over a Chroma collection) ----
\* article_exists answering True for every id
article_exists_Always(db, article_id) == TRUE

\* NewsDatabase.article_exists
article_exists(db, article_id) == article_id \in DOMAIN db

\* NewsDatabase.add_article: collection.add inserts a new id and leaves an
\* existing id as it is (the duplicate is ignored or rejected); an exception of
\* the collection (ok = FALSE) is logged and swallowed
add_article(db, article_id, metadata, ok) ==
    IF ok /\ article_id \notin DOMAIN db
    THEN [i \in DOMAIN db \cup {article_id} |-> IF i = article_id THEN metadata ELSE db[i]]
    ELSE db

\* get_article answering with a record for an id that has none
get_article_Invents(db, article_id) ==
    IF article_id \in DOMAIN db THEN db[article_id] ELSE [url |-> "u1"]

\* NewsDatabase.get_article: the record, or None
get_article(db, article_id) ==
    IF article_id \in DOMAIN db THEN db[article_id] ELSE <<>>

\* ---- process_article, the pure parts ----
\* the keyword filter without content.lower()
keyword_filtered_CaseSensitive(force, keywords, content) ==
    /\ ~force
    /\ keywords # <<>>
    /\ ~ \E k \in 1..Len(keywords) : Contains(content, Lower(keywords[k]))

\* step 2 of process_article: the article is filtered out
keyword_filtered(force, keywords, content) ==
    /\ ~force
    /\ keywords # <<>>
    /\ ~ \E k \in 1..Len(keywords) : Contains(Lower(content), Lower(keywords[k]))

\* step 6 of process_article
build_metadata(article, analysis) ==
    [url |-> article.link,
     relevance_score |-> Get(analysis, "relevance_score", 0),
     relevance_reasoning |-> Get(analysis, "relevance_reasoning", ""),
     impact_score |-> Get(analysis, "impact_score", 0),
     summary_text |-> Get(analysis, "summary", ""),
     reappraised_count |-> Get(article, "reappraised_count", 0)]

\* the comparison of step 8 raises TypeError: `and` evaluates the impact
\* comparison only when the relevance comparison is true
alert_raises(metadata, cutoffs) ==
    \/ metadata.relevance_score = NonInt
    \/ /\ metadata.relevance_score >= cutoffs.relevance
       /\ metadata.impact_score = NonInt

\* the condition of step 8 with > in place of >=
alert_triggered_Strict(metadata, cutoffs) ==
    /\ metadata.relevance_score > cutoffs.relevance
    /\ metadata.impact_score > cutoffs.impact

\* the condition of step 8
alert_triggered(metadata, cutoffs) ==
    /\ metadata.relevance_score >= cutoffs.relevance
    /\ metadata.impact_score >= cutoffs.impact

\* ---- state ----
VARIABLES
    config,            \* the loaded config.yaml with the environment
    store,             \* the Chroma collection: article id -> metadata
    alerts_log,        \* the lines of storage.alerts_log
    verification_log,  \* the lines of logs/verification.jsonl
    events,            \* the lines of logs/events.jsonl
    history,           \* the lines of data/article_history.jsonl
    status_file,       \* storage.status_file: {} until update_status writes it
    frame,             \* per thread: the process_article call in progress, its locals
    res,               \* per thread: what its last pipeline call returned
    run_state,         \* the locals of run() on the scheduler thread
    last_add,          \* article id -> metadata of the last add the collection took without error
    calls_left,        \* calls the web thread may still start
    runs_left,         \* run() calls the scheduler thread may still start
    cache,             \* the document cache: url -> the entry of its readable cache file
    clock,             \* time.time(), in days
    scraped,           \* what the last _scrape_article_content call did and returned
    scrapes_left,      \* scraper calls that may still start
    ticks_left,        \* advances of the clock that may still happen
    prompt,            \* analysis_prompt of prompts.yaml, the active scoring template
    optimizer,         \* what the last request to the prompt optimizer did and answered
    optimizer_left,    \* requests to the prompt optimizer that may still start
    archive,           \* data/archive: month -> the rows of its local.parquet
    last_saved,        \* <<url, month>> -> the article save_articles was last given for it
    saves_left,        \* save_articles calls that may still start
    change,            \* what the last log_change call was given and returned
    changes_left       \* log_change calls on drawn records that may still start

\* the state of the archive
archive_vars == <<archive, last_saved, saves_left>>

\* the state of the calls of the history ledger on drawn records
ledger_vars == <<change, changes_left>>

\* the state of the components beside the pipeline
aside == <<cache, clock, scraped, scrapes_left, ticks_left, prompt, optimizer, optimizer_left,
           archive_vars, ledger_vars>>

\* the state of the pipeline
pipeline == <<config, store, alerts_log, verification_log, events, history, status_file,
              frame, res, run_state, last_add, calls_left, runs_left>>

vars == <<pipeline, aside>>

IdleFrame == [pc |-> "idle"]

NoCall == [status |-> "none", url |-> None, oracle_failed |-> FALSE, store_ok |-> FALSE]

\* a call of a thread, as the result of its next call remembers it
Prev(r) == [status |-> r.status, url |-> r.url,
            oracle_failed |-> r.oracle_failed, store_ok |-> r.store_ok]

NoResult ==
    [op |-> "none", status |-> "none", url |-> None, reason |-> None,
     alert |-> FALSE, metadata |-> <<>>, content |-> <<>>, steps |-> {},
     oracle_failed |-> FALSE, sampled |-> FALSE, store_ok |-> FALSE, existed |-> FALSE,
     prev |-> NoCall]

IdleRun ==
    [pc |-> "idle", articles |-> <<>>, seen_urls |-> {}, processed |-> 0,
     outcome |-> "none", fetched |-> <<>>, passed |-> <<>>, analyzed |-> <<>>]

\* no log_change call on drawn records yet
NoChange == [article_id |-> None, old_data |-> <<>>, new_data |-> <<>>, changes |-> <<>>]

\* no scraper call yet
NoScrape == [url |-> None, content |-> <<>>, fetched |-> FALSE, found |-> -1]

\* no request to the prompt optimizer yet
NoRequest == [op |-> "none", status |-> "none", prompt |-> None, results |-> <<>>]

\* the components beside the pipeline after construction: an empty document
\* cache, the template the repository ships in prompts.yaml
StartComponents(scrapes, ticks, requests, saves, changes) ==
    /\ change = NoChange
    /\ changes_left = changes
    /\ cache = <<>>
    /\ clock = 0
    /\ scraped = NoScrape
    /\ scrapes_left = scrapes
    /\ ticks_left = ticks
    /\ prompt = "prompt0"
    /\ optimizer = NoRequest
    /\ optimizer_left = requests
    /\ archive = <<>>
    /\ last_saved = <<>>
    /\ saves_left = saves

\* the components beside the pipeline and the archive, no log_change call on
\* drawn records to come
StartAside(scrapes, ticks, requests, saves) ==
    StartComponents(scrapes, ticks, requests, saves, 0)

\* the pipeline after construction, before any call
StartPipeline(cfg, calls, runs) ==
    /\ config = cfg
    /\ store = <<>>
    /\ alerts_log = <<>>
    /\ verification_log = <<>>
    /\ events = <<>>
    /\ history = <<>>
    /\ status_file = <<>>
    /\ frame = [w \in Workers |-> IdleFrame]
    /\ res = [w \in Workers |-> NoResult]
    /\ run_state = IdleRun
    /\ last_add = <<>>
    /\ calls_left = calls
    /\ runs_left = runs

\* the state after construction, before any call; the specifications below
\* choose the configuration and the number of calls
Start(cfg, calls, runs) == StartPipeline(cfg, calls, runs) /\ StartAside(0, 0, 0, 0)

\* the result dict of a call of w that ends before the analysis
Result(w, op, article, status, reason) ==
    [op |-> op, status |-> status, url |-> article.link, reason |-> reason,
     alert |-> FALSE, metadata |-> <<>>, content |-> article.content, steps |-> {},
     oracle_failed |-> FALSE, sampled |-> FALSE, store_ok |-> FALSE, existed |-> FALSE,
     prev |-> Prev(res[w])]

\* the external calls a process_article call has made when verify has returned
\* (the primary analysis, the reference model if sampled) ...
StepsBeforeStore(sampled) ==
    {"analyze_article"} \cup (IF sampled THEN {"reference"} ELSE {})

\* ... and when add_article has returned
StepsBeforeAlert(sampled) ==
    StepsBeforeStore(sampled) \cup {"extract_topics", "generate_embedding", "add_article"}

\* the result of the call in frame[w], finished with `status`
FrameResult(w, status, alert, steps) ==
    LET f == frame[w] IN
    [op |-> f.op, status |-> status, url |-> f.article.link, reason |-> None,
     alert |-> alert,
     metadata |-> IF status = "imported" THEN f.metadata ELSE <<>>,
     content |-> f.article.content, steps |-> steps,
     oracle_failed |-> f.oracle_failed, sampled |-> f.sampled,
     store_ok |-> f.store_ok, existed |-> f.existed,
     prev |-> Prev(res[w])]

\* process_article hands `result` back to its caller: run() counts an imported
\* article and goes on with the loop; an exception (status "raised") leaves
\* run() as well.  rs: the locals of run() at the call
Return(w, result, rs) ==
    /\ res' = [res EXCEPT ![w] = result]
    /\ frame' = [frame EXCEPT ![w] = IdleFrame]
    /\ run_state' =
         IF result.op # "run" THEN rs
         ELSE IF result.status = "raised"
              THEN [rs EXCEPT !.pc = "idle", !.outcome = "raised"]
              ELSE [rs EXCEPT
                      !.pc = "loop",
                      !.processed = IF result.status = "imported" THEN @ + 1 ELSE @]

\* steps 1 and 2 of process_article(article, force): the dedup check reads the
\* store, the keyword filter reads the content; otherwise the call goes on to
\* the analysis
Enter(w, op, article, force, rs) ==
    LET article_id == _article_id(article.link) IN
    IF ~force /\ article_exists(store, article_id)
    THEN Return(w, Result(w, op, article, "skipped", "Duplicate (already exists in DB)"), rs)
    ELSE IF keyword_filtered(force, config.keywords, article.content)
    THEN Return(w, Result(w, op, article, "skipped", "Filtered (no matching keywords)"), rs)
    ELSE /\ frame' = [frame EXCEPT ![w] =
                        [pc |-> "analyze", op |-> op, article |-> article, force |-> force,
                         metadata |-> <<>>, oracle_failed |-> FALSE, sampled |-> FALSE,
                         remote_result |-> <<>>, log_ok |-> TRUE,
                         store_ok |-> FALSE, existed |-> FALSE]]
         /\ run_state' = rs
         /\ UNCHANGED res

\* process_article(article) called on the web thread (api_pipeline_process);
\* force keeps its default
process_article(w, article) ==
    /\ w = "web"
    /\ frame[w].pc = "idle"
    /\ calls_left > 0
    /\ calls_left' = calls_left - 1
    /\ Enter(w, "process_article", article, FALSE, run_state)
    /\ UNCHANGED <<config, store, alerts_log, verification_log, events, history, status_file,
                   last_add, runs_left>>
    /\ UNCHANGED aside

\* EventLogger.log: the event is appended to the event log (logs/events.jsonl
\* is taken to be writable)
log(evs, event_type, details) ==
    Append(evs, [type |-> event_type, details |-> details])

\* VerificationService._log_verification: the record is appended to the
\* verification log; a failure to write it (log_ok = FALSE) is logged and swallowed
_log_verification(lines, record, log_ok) ==
    IF log_ok THEN Append(lines, record) ELSE lines

\* the locals of run() with the oracle call of the call in frame f noted, when
\* the call was made by run()
Analyzed(rs, f) ==
    IF f.op = "run" THEN [rs EXCEPT !.analyzed = Append(@, f.article.link)] ELSE rs

\* steps 3 to 6 of process_article: the primary analysis, the verification with
\* its log line and, for a flagged record, its "verification" event, then
\* topics, embedding and the metadata.  log_ok matters only where the call
\* writes the verification log.
process_article_analyze(w, response, rnd, remote_result, log_ok) ==
    /\ frame[w].pc = "analyze"
    /\ LET f == frame[w]
           analysis == analyze_article(response)
           v == verify(config.verification, f.article, analysis, rnd, remote_result)
           oracle_failed == DOMAIN response = {}
       IN  IF v.outcome = "raised"
           THEN /\ Return(w, [FrameResult(w, "raised", FALSE, StepsBeforeStore(v.sampled))
                                EXCEPT !.oracle_failed = oracle_failed,
                                       !.sampled = v.sampled], Analyzed(run_state, f))
                /\ log_ok
                /\ UNCHANGED <<verification_log, events>>
           ELSE /\ IF v.outcome = "record"
                   THEN /\ verification_log' =
                             _log_verification(verification_log, v.record, log_ok)
                        /\ IF v.record.flagged
                           THEN events' = log(events, "verification", v.record)
                           ELSE UNCHANGED events
                   ELSE /\ log_ok
                        /\ UNCHANGED <<verification_log, events>>
                /\ frame' = [frame EXCEPT ![w] =
                               [f EXCEPT !.pc = "store",
                                         !.metadata = build_metadata(f.article, analysis),
                                         !.oracle_failed = oracle_failed,
                                         !.sampled = v.sampled,
                                         !.remote_result =
                                             IF v.sampled THEN remote_result ELSE <<>>,
                                         !.log_ok = log_ok]]
                /\ run_state' = Analyzed(run_state, f)
                /\ UNCHANGED res
    /\ UNCHANGED <<config, store, alerts_log, history, status_file, last_add, calls_left,
                   runs_left>>
    /\ UNCHANGED aside

\* step 7 of process_article: db.add_article; ok = FALSE when the collection
\* raises for a reason of its own, which add_article logs and swallows
process_article_store(w, ok) ==
    /\ frame[w].pc = "store"
    /\ LET f == frame[w]
           article_id == _article_id(f.article.link)
       IN  /\ store' = add_article(store, article_id, f.metadata, ok)
           /\ last_add' =
                IF ok
                THEN [i \in DOMAIN last_add \cup {article_id} |->
                        IF i = article_id THEN f.metadata ELSE last_add[i]]
                ELSE last_add
           /\ frame' = [frame EXCEPT ![w] =
                          [f EXCEPT !.pc = "alert", !.store_ok = ok,
                                    !.existed = article_exists(store, article_id)]]
    /\ UNCHANGED <<config, alerts_log, verification_log, events, history, status_file, res, run_state,
                   calls_left, runs_left>>
    /\ UNCHANGED aside

\* step 8 of process_article and its return: io_ok = FALSE when opening or
\* writing the alert log raises in _log_alert
process_article_alert(w, io_ok) ==
    /\ frame[w].pc = "alert"
    /\ LET f == frame[w]
           cutoffs == config.alert_threshold
           steps == StepsBeforeAlert(f.sampled)
       IN  IF alert_raises(f.metadata, cutoffs)
           THEN /\ io_ok
                /\ Return(w, FrameResult(w, "raised", FALSE, steps), run_state)
                /\ UNCHANGED alerts_log
           ELSE IF alert_triggered(f.metadata, cutoffs)
           THEN IF io_ok
                THEN /\ alerts_log' = Append(alerts_log, f.metadata)
                     /\ Return(w, FrameResult(w, "imported", TRUE, steps \cup {"_log_alert"}),
                               run_state)
                ELSE /\ Return(w, FrameResult(w, "raised", FALSE, steps \cup {"_log_alert"}),
                               run_state)
                     /\ UNCHANGED alerts_log
           ELSE /\ io_ok
                /\ Return(w, FrameResult(w, "imported", FALSE, steps), run_state)
                /\ UNCHANGED alerts_log
    /\ UNCHANGED <<config, store, verification_log, events, history, status_file, last_add,
                   calls_left, runs_left>>
    /\ UNCHANGED aside

\* ---- run() ----
RECURSIVE fetch_recent_articles(_, _)
\* RSSNewsAggregator.fetch_recent_articles with the skip_callback of fetch():
\* entries already stored are skipped, entries whose scrape yields no content
\* (<<>>: the scrape failed or the text was too short) are dropped
fetch_recent_articles(entries, db) ==
    IF entries = <<>> THEN <<>>
    ELSE LET entry == Head(entries)
             rest == fetch_recent_articles(Tail(entries), db)
         IN  IF article_exists(db, _article_id(entry.link)) THEN rest
             ELSE IF entry.content = <<>> THEN rest
             ELSE <<entry>> \o rest

\* the loop of run() passing over no article
already_seen_Never(seen_urls, link) == FALSE

\* article["link"] in seen_urls
already_seen(seen_urls, link) == link \in seen_urls

\* run() up to the loop: articles = self.fetch().  fetched, passed and analyzed
\* keep what the run was given and did: the list fetch() returned, the links
\* handed to process_article and the links the primary oracle was called for
\* (Analyzed), each in the order of time
run(w, entries) ==
    /\ w = "scheduler"
    /\ frame[w].pc = "idle"
    /\ run_state.pc = "idle"
    /\ runs_left > 0
    /\ runs_left' = runs_left - 1
    /\ run_state' = [pc |-> "loop",
                     articles |-> fetch_recent_articles(entries, store),
                     seen_urls |-> {}, processed |-> 0, outcome |-> "running",
                     fetched |-> fetch_recent_articles(entries, store),
                     passed |-> <<>>, analyzed |-> <<>>]
    /\ UNCHANGED <<config, store, alerts_log, verification_log, events, history, status_file, frame,
                   res, last_add, calls_left>>
    /\ UNCHANGED aside

\* one turn of the loop of run(): a url seen in this batch is passed over, any
\* other article goes to process_article; after the last one update_status
\* writes the snapshot and run() returns
run_next(w) ==
    /\ w = "scheduler"
    /\ frame[w].pc = "idle"
    /\ run_state.pc = "loop"
    /\ IF run_state.articles = <<>>
       THEN /\ status_file' = [articles_processed |-> run_state.processed]
            /\ run_state' = [run_state EXCEPT !.pc = "idle", !.outcome = "returned"]
            /\ UNCHANGED <<frame, res>>
       ELSE LET article == Head(run_state.articles)
                rest == [run_state EXCEPT !.articles = Tail(@)]
            IN  /\ IF already_seen(run_state.seen_urls, article.link)
                   THEN /\ run_state' = rest
                        /\ UNCHANGED <<frame, res>>
                   ELSE Enter(w, "run", article, FALSE,
                              [rest EXCEPT !.seen_urls = @ \cup {article.link},
                                           !.passed = Append(@, article.link)])
                /\ UNCHANGED status_file
    /\ UNCHANGED <<config, store, alerts_log, verification_log, events, history, last_add,
                   calls_left, runs_left>>
    /\ UNCHANGED aside

\* ---- reprocess_article ----
\* self.aggregator._scrape_article_content(url, metadata=meta) in
\* reprocess_article: RSSNewsAggregator._scrape_article_content(self, url) has
\* no `metadata` parameter, so the call raises TypeError before it reads anything
scrape_call_raises(url) == TRUE

\* reprocess_article(article_id) called on the web thread (reappraise_article).
\* The call of the scraper ends every call on a stored record with a url, so the
\* forced process_article and history_manager.log_change that follow it, the
\* only writer of the history ledger, are never reached.
reprocess_article(w, article_id) ==
    /\ w = "web"
    /\ frame[w].pc = "idle"
    /\ calls_left > 0
    /\ calls_left' = calls_left - 1
    /\ LET existing == get_article(store, article_id)
           url == Get(existing, "url", None)
           call == [link |-> url, content |-> <<>>]
       IN  IF existing = <<>>
           THEN Return(w, Result(w, "reprocess_article", call, "error",
                                 "Article not found"), run_state)
           ELSE IF url = None \/ url = EmptyLink
           THEN Return(w, Result(w, "reprocess_article", call, "error",
                                 "Article has no URL"), run_state)
           ELSE /\ scrape_call_raises(url)
                /\ Return(w, Result(w, "reprocess_article", call, "raised", None),
                          run_state)
    /\ UNCHANGED <<config, store, alerts_log, verification_log, events, history, status_file,
                   last_add, runs_left>>
    /\ UNCHANGED aside

\* ---- the document cache of the scraper (RSSNewsAggregator) ----
\* the freshness window: 30 * 86400 seconds, in days
FreshnessDays == 30

\* a scraped text shorter than this is dropped
MinContentLength == 200

\* a text: what it says and len() of it
Text(body, length) == [body |-> body, length |-> length]

\* the empty string
NoText == Text("", 0)

\* the request or the parsing of the page raises
FetchError == [error |-> "RequestException"]

\* what requests.get and the extraction of the paragraphs come to: an exception
\* or the joined text
Pages == {FetchError, Text("p1", 199), Text("p2", 200), Text("p3", 250)}

\* the days the clock advances by between two calls
Ticks == {1, 29, 30, 31}

\* the cache check without the expiry
cache_hit_NoExpiry(c, url, now) == url \in DOMAIN c

\* the cache check of _scrape_article_content: the cache file of the url exists,
\* can be read, and time.time() - timestamp < 30 days
cache_hit(c, url, now) ==
    /\ url \in DOMAIN c
    /\ now - c[url].timestamp < FreshnessDays

\* the scraper caching the empty result of a page that is too short
scrape_CachesShort(c, url, now, page) ==
    IF cache_hit(c, url, now)
    THEN [content |-> c[url].content, fetched |-> FALSE, cache |-> c]
    ELSE IF page = FetchError
    THEN [content |-> NoText, fetched |-> TRUE, cache |-> c]
    ELSE LET text == IF page.length < MinContentLength THEN NoText ELSE page IN
         [content |-> text, fetched |-> TRUE,
          cache |-> [u \in DOMAIN c \cup {url} |->
                       IF u = url
                       THEN [url |-> url, timestamp |-> now, content |-> text]
                       ELSE c[u]]]

\* RSSNewsAggregator._scrape_article_content(url) with cache_dir set (the
\* directory is taken to be writable): what it returns, whether it made
\* the network request, and the cache it leaves
scrape(c, url, now, page) ==
    IF cache_hit(c, url, now)
    THEN [content |-> c[url].content, fetched |-> FALSE, cache |-> c]
    ELSE IF page = FetchError
    THEN [content |-> NoText, fetched |-> TRUE, cache |-> c]
    ELSE IF page.length < MinContentLength
    THEN [content |-> NoText, fetched |-> TRUE, cache |-> c]
    ELSE [content |-> page, fetched |-> TRUE,
          cache |-> [u \in DOMAIN c \cup {url} |->
                       IF u = url
                       THEN [url |-> url, timestamp |-> now, content |-> page]
                       ELSE c[u]]]

\* a call of _scrape_article_content(url); page is what the network would give;
\* scraped.found remembers the age of the entry the call found, -1 for none
_scrape_article_content(url, page) ==
    /\ scrapes_left > 0
    /\ scrapes_left' = scrapes_left - 1
    /\ LET out == scrape(cache, url, clock, page) IN
       /\ cache' = out.cache
       /\ scraped' = [url |-> url, content |-> out.content, fetched |-> out.fetched,
                      found |-> IF url \in DOMAIN cache
                                THEN clock - cache[url].timestamp ELSE -1]
    /\ UNCHANGED <<clock, ticks_left, prompt, optimizer, optimizer_left,
                   archive_vars, ledger_vars>>
    /\ UNCHANGED pipeline

\* time passes between two calls
Tick(days) ==
    /\ ticks_left > 0
    /\ ticks_left' = ticks_left - 1
    /\ clock' = clock + days
    /\ UNCHANGED <<cache, scraped, scrapes_left, prompt, optimizer, optimizer_left,
                   archive_vars, ledger_vars>>
    /\ UNCHANGED pipeline

\* ---- the prompt optimizer (PromptOptimizer and its routes) ----
\* the texts a scoring template can be
Prompts == {"prompt0", "prompt1", "prompt2"}

\* most failure cases a request works on
FailureLimit == 5

RECURSIVE flagged_newest_first(_)
\* the flagged records of the verification log, newest first
flagged_newest_first(lines) ==
    IF lines = <<>> THEN <<>>
    ELSE LET rest == flagged_newest_first(SubSeq(lines, 1, Len(lines) - 1))
             last == lines[Len(lines)]
         IN  IF last.flagged THEN <<last>> \o rest ELSE rest

\* PromptOptimizer.get_failure_cases(limit)
get_failure_cases(lines, limit) ==
    LET failures == flagged_newest_first(lines) IN
    SubSeq(failures, 1, IF Len(failures) < limit THEN Len(failures) ELSE limit)

\* PromptOptimizer.generate_optimized_prompt: answer is the text the reference
\* model returns, "" when the request fails
generate_optimized_prompt(api_key, answer) ==
    IF ~api_key THEN "Error: OpenRouter API Key missing." ELSE answer

\* one turn of the loop of test_prompt: the case, the store, the document cache
\* and the response of the local model to the candidate prompt
test_case(case, db, c, response) ==
    IF get_article(db, _article_id(case.article_url)) = <<>>
    THEN [error |-> "Content not found in DB"]
    ELSE IF case.article_url \notin DOMAIN c
    THEN [error |-> "Full text source not found"]
    ELSE LET score == Get(response, "relevance_score", 0)
             target == case.remote_score
         IN  [old_score |-> case.local_score,
              new_score |-> score,
              target_score |-> target,
              improved |-> Abs(score - target) < Abs(case.local_score - target)]

\* PromptOptimizer.test_prompt: responses[i] is what the local model answers
\* for the i-th case
test_prompt(test_cases, db, c, responses) ==
    [i \in 1..Len(test_cases) |-> test_case(test_cases[i], db, c, responses[i])]

\* abs(score - target) raises TypeError for a score that is no number
test_prompt_raises(test_cases, db, c, responses) ==
    \E i \in 1..Len(test_cases) :
        /\ "error" \notin DOMAIN test_case(test_cases[i], db, c, responses[i])
        /\ Get(responses[i], "relevance_score", 0) = NonInt

\* save_prompt writing nothing
save_prompt_Keeps(current, new_prompt, outcome) == current

\* PromptOptimizer.save_prompt: open(prompts_path, "w") and yaml.dump; outcome
\* "saved", "open failed" (nothing written) or "dump failed" (the file is
\* left truncated, which reads as the empty template)
save_prompt(current, new_prompt, outcome) ==
    CASE outcome = "saved" -> new_prompt
      [] outcome = "open failed" -> current
      [] OTHER -> ""

\* a request to the optimizer ends with the answer `answer`
Answer(op, status, text, results) ==
    /\ optimizer_left > 0
    /\ optimizer_left' = optimizer_left - 1
    /\ optimizer' = [op |-> op, status |-> status, prompt |-> text, results |-> results]
    /\ UNCHANGED <<cache, clock, scraped, scrapes_left, ticks_left,
                   archive_vars, ledger_vars>>
    /\ UNCHANGED pipeline

\* POST /verification/optimize (propose)
optimize_prompt(answer) ==
    LET failures == get_failure_cases(verification_log, FailureLimit)
        new_prompt == generate_optimized_prompt(config.verification.api_key, answer)
    IN  /\ IF failures = <<>>
           THEN /\ answer = ""
                /\ Answer("optimize_prompt", "error", None, <<>>)
           ELSE IF new_prompt = ""
           THEN Answer("optimize_prompt", "error", None, <<>>)
           ELSE Answer("optimize_prompt", "success", new_prompt, <<>>)
        /\ UNCHANGED prompt

\* POST /verification/test (test) of the candidate new_prompt
test_optimized_prompt(new_prompt, responses) ==
    LET failures == get_failure_cases(verification_log, FailureLimit) IN
    /\ DOMAIN responses = 1..Len(failures)
    /\ IF test_prompt_raises(failures, store, cache, responses)
       THEN Answer("test_optimized_prompt", "error", new_prompt, <<>>)
       ELSE Answer("test_optimized_prompt", "success", new_prompt,
                   test_prompt(failures, store, cache, responses))
    /\ UNCHANGED prompt

\* POST /verification/apply (apply) of the candidate new_prompt
apply_prompt(new_prompt, outcome) ==
    /\ prompt' = save_prompt(prompt, new_prompt, outcome)
    /\ Answer("apply_prompt", IF outcome = "saved" THEN "success" ELSE "error",
              new_prompt, <<>>)

\* ---- the history ledger (HistoryManager) ----
\* fields_to_track of log_change
fields_to_track ==
    {"relevance_score", "relevance_reasoning", "impact_score", "status", "summary_text"}

\* the records log_change is given: a stored record or the metadata of a new
\* judgment, with or without a status set by the operator
HistoryRecords ==
    LET Judged == { [url |-> "u1", title |-> title, relevance_score |-> score,
                     relevance_reasoning |-> IF score = 3 THEN "r1" ELSE "r2",
                     impact_score |-> 7, summary_text |-> summary] :
                        title \in {"t1", "t2"}, score \in {3, 7}, summary \in {"s1", "s2"} }
        WithStatus(j) == [k \in DOMAIN j \cup {"status"} |->
                            IF k = "status" THEN "High" ELSE j[k]]
    IN  Judged \cup { WithStatus(j) : j \in Judged }

\* log_change putting every tracked field into the diff, changed or not
log_change_AllTracked(article_id, old_data, new_data, change_type) ==
    [article_id |-> article_id,
     type |-> change_type,
     changes |-> [field \in fields_to_track |->
                    [from |-> Get(old_data, field, None), to |-> Get(new_data, field, None)]],
     snapshot |-> [k \in fields_to_track \cap DOMAIN new_data |-> new_data[k]]]

\* HistoryManager.log_change: the History Entry it builds (without its
\* timestamp); `changes` is the diff it returns
log_change(article_id, old_data, new_data, change_type) ==
    LET changed == { field \in fields_to_track :
                        Get(old_data, field, None) # Get(new_data, field, None) }
    IN  [article_id |-> article_id,
         type |-> change_type,
         changes |-> [field \in changed |->
                        [from |-> Get(old_data, field, None),
                         to |-> Get(new_data, field, None)]],
         snapshot |-> [k \in fields_to_track \cap DOMAIN new_data |-> new_data[k]]]

\* a call of history_manager.log_change(article_id, old_data, new_data) on a
\* stored record and a new judgment; the entry goes to the end of the ledger
\* (data/article_history.jsonl is taken to be writable)
history_log_change(article_id, old_data, new_data) ==
    /\ changes_left > 0
    /\ changes_left' = changes_left - 1
    /\ LET entry == log_change(article_id, old_data, new_data, "reappraisal") IN
       /\ history' = Append(history, entry)
       /\ change' = [article_id |-> article_id, old_data |-> old_data,
                     new_data |-> new_data, changes |-> entry.changes]
    /\ UNCHANGED <<config, store, alerts_log, verification_log, events, status_file, frame,
                   res, run_state, last_add, calls_left, runs_left>>
    /\ UNCHANGED <<cache, clock, scraped, scrapes_left, ticks_left,
                   prompt, optimizer, optimizer_left, archive_vars>>

\* ---- the archive (ArchiveManager) ----
\* the months of the publication dates, as strftime("%Y-%m") gives them
Months == {"2023-10", "2023-11"}

\* the articles handed to save_articles: `published` is the date, a month and
\* a day of it
ArchiveArticles ==
    [url : URLs, published : Months \X {1, 2}, title : {"A", "B"}]

\* the batches handed to save_articles
Batches == UNION { [1..n -> ArchiveArticles] : n \in 1..MaxBatch }

\* dateutil.parser.parse(date_str).strftime("%Y-%m")
month_of(published) == published[1]

RECURSIVE rows_of_month(_, _)
\* by_month[month_str]: the articles of the batch published in the month, in
\* the order of the batch
rows_of_month(articles, month_str) ==
    IF articles = <<>> THEN <<>>
    ELSE LET rest == rows_of_month(Tail(articles), month_str) IN
         IF month_of(Head(articles).published) = month_str
         THEN <<Head(articles)>> \o rest
         ELSE rest

RECURSIVE drop_duplicates_keep_last(_)
\* DataFrame.drop_duplicates(subset=['url'], keep='last')
drop_duplicates_keep_last(rows) ==
    IF rows = <<>> THEN <<>>
    ELSE LET rest == Tail(rows) IN
         IF \E i \in 1..Len(rest) : rest[i].url = Head(rows).url
         THEN drop_duplicates_keep_last(rest)
         ELSE <<Head(rows)>> \o drop_duplicates_keep_last(rest)

\* ArchiveManager.save_articles: the rows of each month of the batch go to the
\* month's local.parquet; an existing file is read, concatenated with the new
\* rows and deduplicated, a new file is written from the new rows as they are
save_articles(arch, articles) ==
    LET months == { month_of(articles[i].published) : i \in 1..Len(articles) } IN
    [m \in DOMAIN arch \cup months |->
        IF m \notin months THEN arch[m]
        ELSE IF m \in DOMAIN arch
        THEN drop_duplicates_keep_last(arch[m] \o rows_of_month(articles, m))
        ELSE rows_of_month(articles, m)]

\* ArchiveManager.get_article(url, published_date_str): df.loc[url] of the
\* month of the date, the first row when several rows have the url; <<>> for None
ArchiveManager_get_article(arch, url, published) ==
    LET month == month_of(published) IN
    IF month \notin DOMAIN arch THEN <<>>
    ELSE LET df == arch[month]
             hits == { i \in 1..Len(df) : df[i].url = url }
         IN  IF hits = {} THEN <<>>
             ELSE df[CHOOSE i \in hits : \A j \in hits : i <= j]

RECURSIVE note_saved(_, _)
\* last_saved after the batch: per url and month, the last article given
note_saved(saved, articles) ==
    IF articles = <<>> THEN saved
    ELSE LET art == Head(articles)
             key == <<art.url, month_of(art.published)>>
         IN  note_saved([k \in DOMAIN saved \cup {key} |->
                            IF k = key THEN art ELSE saved[k]],
                        Tail(articles))

\* a call of ArchiveManager.save_articles(articles)
archive_save(articles) ==
    /\ saves_left > 0
    /\ saves_left' = saves_left - 1
    /\ archive' = save_articles(archive, articles)
    /\ last_saved' = note_saved(last_saved, articles)
    /\ UNCHANGED <<cache, clock, scraped, scrapes_left, ticks_left,
                   prompt, optimizer, optimizer_left, ledger_vars>>
    /\ UNCHANGED pipeline

\* ---- the specifications ----
\* the configuration of the many-call specification: no keywords, the default
\* thresholds 7 and 7, verification not enabled (its default)
DefaultConfig ==
    [keywords |-> <<>>,
     alert_threshold |-> [relevance |-> DefaultRelevanceCutoff, impact |-> DefaultImpactCutoff],
     verification |-> [enabled |-> FALSE, api_key |-> TRUE,
                       rate_interesting |-> Scale, rate_random |-> 0]]

\* the responses and texts the many-call specifications draw from
FewResponses ==
    { <<>>,
      [summary |-> "s1", relevance_score |-> 7, relevance_reasoning |-> "r1", impact_score |-> 7] }

FewContents == { <<"x", "A", "i">> }

FeedEntries == [link : URLs, content : FewContents \cup {<<>>}]

Feeds == UNION { [1..n -> FeedEntries] : n \in 0..MaxBatch }

\* the steps of a process_article call in progress on thread w
Steps(w, responses, remotes) ==
    \/ \E response \in responses, rnd \in Randoms, remote_result \in remotes,
          log_ok \in BOOLEAN :
          process_article_analyze(w, response, rnd, remote_result, log_ok)
    \/ \E ok \in BOOLEAN : process_article_store(w, ok)
    \/ \E io_ok \in BOOLEAN : process_article_alert(w, io_ok)

\* the calls the web thread starts on the links `links`
WebCallsOn(links, contents) ==
    \/ \E u \in links, c \in contents :
          process_article("web", [link |-> u, content |-> c])
    \/ \E u \in links : reprocess_article("web", _article_id(u))

\* the calls the web thread starts
WebCalls(contents) == WebCallsOn(URLs, contents)

\* the calls the scheduler thread starts
SchedulerCalls ==
    \/ \E entries \in Feeds : run("scheduler", entries)
    \/ run_next("scheduler")

\* Spec: the scheduler thread and the web thread side by side
Init == Start(DefaultConfig, MaxCalls, MaxRuns)

Next ==
    \/ WebCalls(FewContents)
    \/ SchedulerCalls
    \/ \E w \in Workers : Steps(w, FewResponses, {<<>>})

Spec == Init /\ [][Next]_vars

\* SpecOne: one call of the web thread on the empty store, for every
\* configuration, text and response
InitOne == \E cfg \in Configs : Start(cfg, 1, 0)

NextOne ==
    \/ WebCalls(Contents)
    \/ Steps("web", PrimaryResponses, ReferenceResponses)

SpecOne == InitOne /\ [][NextOne]_vars

\* SpecCache: calls of the scraper on two urls while time passes
InitCache == StartPipeline(DefaultConfig, 0, 0) /\ StartAside(MaxScrapes, MaxTicks, 0, 0)

NextCache ==
    \/ \E u \in URLs, page \in Pages : _scrape_article_content(u, page)
    \/ \E days \in Ticks : Tick(days)

SpecCache == InitCache /\ [][NextCache]_vars

\* SpecArchive: calls of save_articles on an empty archive directory
InitArchive == StartPipeline(DefaultConfig, 0, 0) /\ StartAside(0, 0, 0, MaxSaves)

NextArchive == \E articles \in Batches : archive_save(articles)

SpecArchive == InitArchive /\ [][NextArchive]_vars

\* SpecHistory: calls of log_change on drawn records
InitHistory == StartPipeline(DefaultConfig, 0, 0) /\ StartComponents(0, 0, 0, 0, MaxChanges)

NextHistory ==
    \E old_data \in HistoryRecords, new_data \in HistoryRecords :
        history_log_change(_article_id("u1"), old_data, new_data)

SpecHistory == InitHistory /\ [][NextHistory]_vars

\* SpecVerify: calls of the web thread one after the other, on articles with
\* and without a link, with verification
\* enabled, an API key set, sample_rate_interesting 1.0 and sample_rate_random 0.5
VerifyConfig ==
    [keywords |-> <<>>,
     alert_threshold |-> [relevance |-> DefaultRelevanceCutoff, impact |-> DefaultImpactCutoff],
     verification |-> [enabled |-> TRUE, api_key |-> TRUE,
                       rate_interesting |-> Scale, rate_random |-> 1]]

InitVerify == Start(VerifyConfig, MaxCalls, 0)

NextVerify ==
    \/ WebCallsOn(URLs \cup {EmptyLink}, FewContents)
    \/ Steps("web", FewResponses, ReferenceResponses)

SpecVerify == InitVerify /\ [][NextVerify]_vars

\* SpecPrompt: one call of the web thread with verification enabled, one call
\* of the scraper, and requests to the prompt optimizer
InitPrompt == StartPipeline(VerifyConfig, 1, 0) /\ StartAside(1, 0, MaxRequests, 0)

NextPrompt ==
    \/ WebCalls(FewContents)
    \/ Steps("web", FewResponses, ReferenceResponses)
    \/ \E u \in URLs, page \in Pages : _scrape_article_content(u, page)
    \/ \E answer \in Prompts \cup {""} : optimize_prompt(answer)
    \/ \E new_prompt \in Prompts, n \in 0..MaxCalls :
          \E responses \in [1..n -> PrimaryResponses] :
              test_optimized_prompt(new_prompt, responses)
    \/ \E new_prompt \in Prompts, outcome \in {"saved", "open failed", "dump failed"} :
          apply_prompt(new_prompt, outcome)

SpecPrompt == InitPrompt /\ [][NextPrompt]_vars

\* ---- the claims ----
Duplicate == "Duplicate (already exists in DB)"
Filtered == "Filtered (no matching keywords)"

\* r is the result of a finished call
Finished(r) == r.status # "none"

\* r is the result of a process_article call (direct, or made by run)
OfProcess(r) == r.op \in {"process_article", "run"}

DupSkip(r) == r.status = "skipped" /\ r.reason = Duplicate

\* the previous call of the same thread was for the same url
SameUrlAgain(r) == r.prev.status # "none" /\ r.prev.url = r.url

\* C1: when process_article is called twice in sequence on the same url (not
\* forced) and the first call returned "imported", the second call returns
\* "skipped" with the Duplicate reason, makes no oracle call, store write or
\* alert, and the store holds the record of that url.
C1_SecondCallIsDuplicate ==
    \A w \in Workers :
        LET r == res[w] IN
        (OfProcess(r) /\ Finished(r) /\ SameUrlAgain(r) /\ r.prev.status = "imported")
            => /\ DupSkip(r)
               /\ r.steps = {}
               /\ article_exists(store, _article_id(r.url))

\* C2: persistence is an upsert: a call that scores an article whose identity
\* already has a record when the call persists (what a re-score by
\* reprocess_article is), whose store write passes without error and which
\* returns "imported", leaves get_article(id)
\* returning the judgment of that call, not the one stored before.
C2_RescoreReplacesJudgment ==
    \A w \in Workers :
        LET r == res[w] IN
        (r.status = "imported" /\ r.existed /\ r.store_ok)
            => get_article(store, _article_id(r.url)) = r.metadata

\* C3: a failure while run() processes one article is converted to a result
\* for that article: no process_article call of run() ends in an exception,
\* run() is not left by one, and when run() is over every article of the batch
\* has been taken and the status snapshot is written.
C3_BatchResilience ==
    /\ (res["scheduler"].op = "run" => res["scheduler"].status # "raised")
    /\ run_state.outcome \in {"none", "running", "returned"}
    /\ (run_state.outcome = "returned" =>
            /\ run_state.articles = <<>>
            /\ status_file # <<>>)

\* C4: when the store write of a call fails, the result of the call is not
\* "imported".
C4_FailedWriteNotImported ==
    \A w \in Workers :
        LET r == res[w] IN
        ("add_article" \in r.steps /\ ~r.store_ok) => r.status # "imported"

C7_LastWriterWins ==
    \A id \in DOMAIN last_add :
        /\ article_exists(store, id)
        /\ get_article(store, id) = last_add[id]

\* C8: a process_article call (not forced) on an article that is not stored:
\* if the keyword list is not empty and no keyword occurs case-insensitively in
\* the content, it returns "skipped" with the Filtered reason, calls no oracle
\* and writes nothing; if the list is empty or a keyword occurs, it is not
\* filtered.
NoKeywordOccurs(keywords, content) ==
    /\ Len(keywords) > 0
    /\ \A k \in 1..Len(keywords) : ~Contains(Lower(content), Lower(keywords[k]))

C8_KeywordGate ==
    \A w \in Workers :
        LET r == res[w] IN
        (r.op = "process_article" /\ Finished(r))
            => IF NoKeywordOccurs(config.keywords, r.content)
               THEN /\ r.status = "skipped" /\ r.reason = Filtered
                    /\ r.steps = {}
                    /\ store = <<>> /\ alerts_log = <<>> /\ verification_log = <<>>
               ELSE r.reason # Filtered /\ r.status # "skipped"

C8_Witness ==
    \E w \in Workers :
        /\ res[w].status = "skipped" /\ res[w].reason = Filtered
        /\ NoKeywordOccurs(config.keywords, res[w].content)

\* C9: a processed article has alert = True and one line in the alert log if
\* and only if its relevance score >= the relevance threshold and its impact
\* score >= the impact threshold; with thresholds (7,7), relevance 7 and impact
\* 7 alerts and relevance 6 does not.
C9_AlertThreshold ==
    \A w \in Workers :
        LET r == res[w]
            meets == /\ r.metadata.relevance_score >= config.alert_threshold.relevance
                     /\ r.metadata.impact_score >= config.alert_threshold.impact
        IN  r.status = "imported"
            => /\ r.alert <=> meets
               /\ alerts_log = IF meets THEN <<r.metadata>> ELSE <<>>
               /\ ("_log_alert" \in r.steps) <=> meets

C9_Witness ==
    \E w \in Workers :
        /\ res[w].status = "imported" /\ res[w].alert
        /\ config.alert_threshold = [relevance |-> 7, impact |-> 7]
        /\ res[w].metadata.relevance_score = 7
        /\ res[w].metadata.impact_score = 7
        /\ Len(alerts_log) = 1

\* a call of w is past verify with an integer primary relevance score
PastVerify(w) == frame[w].pc \in {"store", "alert"}
                 /\ frame[w].metadata.relevance_score # NonInt

\* C10 as claimed: with sample_rate_interesting = 1.0 every primary judgment
\* with relevance score >= 7 is sampled; with sample_rate_random = 0.0 no
\* judgment with relevance score < 7 is.
C10_SamplingBounds ==
    \A w \in Workers :
        PastVerify(w) =>
            LET score == frame[w].metadata.relevance_score
                vcfg == config.verification IN
            /\ (vcfg.rate_interesting = Scale /\ score >= 7) => frame[w].sampled
            /\ (vcfg.rate_random = 0 /\ score < 7) => ~frame[w].sampled

\* C10 amended: with verification enabled, an API key set and
\* sample_rate_interesting = 1.0 every primary judgment with relevance score
\* >= 7 is sampled; with sample_rate_random = 0.0 no judgment with relevance
\* score < 7 is.
C10_SamplingBoundsWhenEnabled ==
    \A w \in Workers :
        PastVerify(w) =>
            LET score == frame[w].metadata.relevance_score
                vcfg == config.verification IN
            /\ (vcfg.enabled /\ vcfg.api_key /\ vcfg.rate_interesting = Scale /\ score >= 7)
                  => frame[w].sampled
            /\ (vcfg.rate_random = 0 /\ score < 7) => ~frame[w].sampled

C10_Witness ==
    \E w \in Workers :
        /\ PastVerify(w)
        /\ config.verification.enabled /\ config.verification.api_key
        /\ config.verification.rate_interesting = Scale
        /\ frame[w].metadata.relevance_score >= 7
        /\ frame[w].sampled

\* s is an initial part of t
IsPrefix(s, t) == Len(s) <= Len(t) /\ SubSeq(t, 1, Len(s)) = s

\* the step in which the call of w leaves verify and goes on
VerifyReturns(w) == frame[w].pc = "analyze" /\ frame'[w].pc = "store"

\* the step in which the call of w, sampled, ends in verify with an exception
VerifyRaises(w) ==
    /\ frame[w].pc = "analyze" /\ frame'[w].pc = "idle"
    /\ res'[w].status = "raised" /\ res'[w].sampled

\* the Verification Record of the call of w that has left verify
RecordOf(f) ==
    LET local_score == f.metadata.relevance_score
        remote_score == Get(f.remote_result, "relevance_score", 0)
    IN  [article_url |-> f.article.link,
         local_score |-> local_score,
         remote_score |-> remote_score,
         discrepancy |-> IF local_score >= remote_score
                         THEN local_score - remote_score
                         ELSE remote_score - local_score,
         flagged |-> (local_score - remote_score >= 4 \/ remote_score - local_score >= 4)]

\* C11 as claimed: whenever the sampler decides to sample an article, verify
\* appends exactly one record to the verification log, flagged or not; every
\* step leaves the lines the log already had as they were.
C11_SampledIsLogged ==
    [][ /\ IsPrefix(verification_log, verification_log')
        /\ \A w \in Workers :
              ((VerifyReturns(w) /\ frame'[w].sampled) \/ VerifyRaises(w))
                  => Len(verification_log') = Len(verification_log) + 1 ]_vars

\* C11 amended: whenever the sampler decides to sample an article, the
\* reference model returns a judgment with a numeric relevance score and the
\* log file can be written, verify appends exactly one record to the
\* verification log, flagged or not; in every other case (not sampled, the
\* reference model failed, verify raised, the write failed) it appends nothing;
\* every step leaves the lines the log already had as they were.
C11_ComparisonIsLogged ==
    [][ /\ IsPrefix(verification_log, verification_log')
        /\ Len(verification_log') <= Len(verification_log) + 1
        /\ \A w \in Workers :
              VerifyReturns(w) =>
                  LET f == frame'[w] IN
                  verification_log' =
                      IF f.sampled /\ f.remote_result # <<>> /\ f.log_ok
                      THEN Append(verification_log, RecordOf(f))
                      ELSE verification_log
        /\ (\A w \in Workers : ~VerifyReturns(w))
              => verification_log' = verification_log ]_vars

C11_Witness ==
    \E w \in Workers :
        /\ frame[w].pc = "store" /\ frame[w].sampled
        /\ Len(verification_log) = 2
        /\ ~verification_log[2].flagged
        /\ verification_log[2] = RecordOf(frame[w])

\* the step in which a reprocess_article call of w returns or raises
ReprocessEnds(w) ==
    /\ calls_left' < calls_left
    /\ frame'[w].pc = "idle"
    /\ res'[w].op = "reprocess_article"

\* C12: a reprocess_article(id) call either returns an error and appends
\* nothing to the history ledger, or succeeds (status "imported") and appends
\* exactly one History Entry for id, whose changes hold the relevance score
\* from the old to the new value when it changed.
C12_ReprocessAppendsHistory ==
    [][ \A w \in Workers :
          ReprocessEnds(w) =>
              IF res'[w].status = "error"
              THEN history' = history
              ELSE /\ res'[w].status = "imported"
                   /\ Len(history') = Len(history) + 1
                   /\ history'[Len(history')].article_id = _article_id(res'[w].url) ]_vars

\* C13: a reprocess_article call on an identity with no stored record, or whose
\* record has no URL, returns status "error", leaves the store, the history
\* ledger, the verification log, the alert log and the event log unchanged and
\* calls no oracle; a call that does not return an error is on a stored record
\* with a URL.
C13_ReprocessErrorTouchesNothing ==
    [][ \A w \in Workers :
          ReprocessEnds(w) =>
              LET r == res'[w] IN
              /\ r.status = "error" =>
                    /\ r.reason \in {"Article not found", "Article has no URL"}
                    /\ r.steps = {}
                    /\ UNCHANGED <<store, history, verification_log, alerts_log, events,
                                   last_add, frame>>
              /\ r.status # "error" =>
                    /\ r.url \in URLs
                    /\ _article_id(r.url) \in DOMAIN store
                    /\ store[_article_id(r.url)].url = r.url
              /\ (r.url = None \/ r.url = EmptyLink) => r.status = "error" ]_vars

C13_Witness ==
    \E w \in Workers :
        /\ res[w].op = "reprocess_article"
        /\ res[w].status = "error" /\ res[w].reason = "Article has no URL"
        /\ _article_id(EmptyLink) \in DOMAIN store
        /\ Len(verification_log) = 1

\* the step is a call of the scraper
ScrapeStep == scrapes_left' < scrapes_left

\* C14: a lookup of a url whose cached entry is younger than the 30-day window
\* returns the cached text without a network fetch; an entry older than the
\* window (31 days) is treated as absent: the network fetch is made.
C14_CacheFreshness ==
    [][ ScrapeStep =>
          LET url == scraped'.url IN
          url \in DOMAIN cache =>
              LET age == clock - cache[url].timestamp IN
              /\ age < 30 => /\ ~scraped'.fetched
                             /\ scraped'.content = cache[url].content
                             /\ cache' = cache
              /\ age > 30 => scraped'.fetched ]_vars

C14_Witness ==
    /\ scraped.found = 31
    /\ scraped.fetched
    /\ scraped.content # NoText
    /\ cache[scraped.url].timestamp = clock

OptimizerStep == optimizer_left' < optimizer_left

\* C16: the active scoring template changes only by an explicit apply
\* (save_prompt), which sets it to the text applied; no pipeline call,
\* verification, scraper call, propose or test changes it, whatever the test
\* reports.
C16_PromptHumanGated ==
    [][ /\ prompt' # prompt =>
              /\ OptimizerStep
              /\ optimizer'.op = "apply_prompt"
              /\ prompt' \in {optimizer'.prompt, ""}
        /\ (OptimizerStep /\ optimizer'.op = "apply_prompt"
                          /\ optimizer'.status = "success")
              => prompt' = optimizer'.prompt
        /\ (OptimizerStep /\ optimizer'.op # "apply_prompt") => prompt' = prompt ]_vars

C16_Witness ==
    /\ optimizer.op = "test_optimized_prompt"
    /\ optimizer.status = "success"
    /\ Len(optimizer.results) = 1
    /\ "improved" \in DOMAIN optimizer.results[1]
    /\ optimizer.results[1].improved
    /\ optimizer.prompt # prompt
    /\ prompt = "prompt0"

\* C17: after any sequence of save_articles calls, get_article(url, date) for a
\* url saved with a publication date in the month of the date returns the
\* article most recently saved for that url in that month, also when an
\* earlier and a later article for the url come in the same batch.
C17_ArchiveLastWriteWins ==
    \A key \in DOMAIN last_saved :
        ArchiveManager_get_article(archive, key[1], <<key[2], 1>>) = last_saved[key]

\* the calls of the two threads ran side by side on one url: both are
\* process_article calls (not forced) on the url and both wrote the store, so
\* neither began after the other's write, and the store had no record of the
\* url when either began
SideBySide(r1, r2) ==
    /\ Finished(r1) /\ Finished(r2)
    /\ OfProcess(r1) /\ OfProcess(r2)
    /\ r1.url = r2.url
    /\ r1.store_ok /\ r2.store_ok

\* C18: of two concurrent process_article calls (not forced) on the same url,
\* begun on a store without a record of it, at most one returns "imported",
\* at most one calls the primary oracle and at most one appends an alert line.
C18_DedupUnderConcurrency ==
    LET r1 == res["scheduler"]
        r2 == res["web"]
    IN  SideBySide(r1, r2) =>
            /\ ~(r1.status = "imported" /\ r2.status = "imported")
            /\ ~("analyze_article" \in r1.steps /\ "analyze_article" \in r2.steps)
            /\ ~(r1.alert /\ r2.alert)

\* C19: verification is advisory: a process_article call that was sampled and
\* asked the reference model ends as it would have ended unsampled, with
\* status "imported" after the store write; verification never keeps the
\* persist and alert steps from running.
C19_VerificationAdvisory ==
    \A w \in Workers :
        LET r == res[w] IN
        (Finished(r) /\ OfProcess(r) /\ r.sampled /\ "reference" \in r.steps) =>
            /\ r.status = "imported"
            /\ "add_article" \in r.steps

\* the line has the discrepancy and the flag of its two scores
WellFormedRecord(v) ==
    /\ v.discrepancy = (IF v.local_score >= v.remote_score
                        THEN v.local_score - v.remote_score
                        ELSE v.remote_score - v.local_score)
    /\ v.flagged = (v.discrepancy >= 4)

ReprocessOfStored(r) ==
    /\ Finished(r)
    /\ r.op = "reprocess_article"
    /\ r.url \in URLs

\* C21: reprocess_article(id) on an identity that has a stored record with a
\* URL always returns a result whose status is "imported" or "error": it is
\* never skipped and never ends by an exception.
C21_ForcedReentryReturns ==
    \A w \in Workers :
        ReprocessOfStored(res[w]) => res[w].status \in {"imported", "error"}

\* C22: reprocess_article on a stored record with a URL scores a text, the
\* original article text when the cache or a live scrape yields it and the
\* stored summary otherwise, or, with neither content nor summary, returns
\* status "error": every such call has either called the primary oracle or
\* returned that error.
C22_ReprocessRecoversContent ==
    \A w \in Workers :
        LET r == res[w] IN
        ReprocessOfStored(r) =>
            \/ "analyze_article" \in r.steps
            \/ r.status = "error" /\ r.reason = "Could not retrieve content or summary"

\* C23: a reprocess_article call on a stored record with a URL that does not
\* return an error succeeds, and its metadata carry the record's relevance and
\* impact scores as previous_relevance_score and previous_impact_score and the
\* record's reappraisal counter plus one, which is then the stored counter.
C23_ReappraisalTracking ==
    [][ \A w \in Workers :
          (ReprocessEnds(w) /\ res'[w].url \in URLs /\ res'[w].status # "error") =>
              LET article_id == _article_id(res'[w].url)
                  old == store[article_id]
                  new == res'[w].metadata
              IN  /\ res'[w].status = "imported"
                  /\ Get(new, "previous_relevance_score", None) = old.relevance_score
                  /\ Get(new, "previous_impact_score", None) = old.impact_score
                  /\ new.reappraised_count = old.reappraised_count + 1
                  /\ store'[article_id].reappraised_count = old.reappraised_count + 1 ]_vars

\* the value of the field in the record, None when the record has none
ValueOf(data, field) == IF field \in DOMAIN data THEN data[field] ELSE None

\* the step is a call of log_change on drawn records
ChangeStep == changes_left' < changes_left

\* the History Entry the step has appended
NewEntry == history'[Len(history')]

C25_AlertsHaveStoredRecords ==
    \A i \in 1..Len(alerts_log) :
        LET article_id == _article_id(alerts_log[i].url) IN
        /\ article_id \in DOMAIN store
        /\ store[article_id].relevance_score >= config.alert_threshold.relevance
        /\ store[article_id].impact_score >= config.alert_threshold.impact

\* C26: a reprocess_article call on a stored record with a URL that does not
\* return an error succeeds and changes only judgment and reappraisal fields:
\* the URL of the record (with its title, source, publication date and
\* operator-set status) is after the call what it was before.
C26_ReprocessKeepsRecordFields ==
    [][ \A w \in Workers :
          (ReprocessEnds(w) /\ res'[w].url \in URLs /\ res'[w].status # "error") =>
              LET article_id == _article_id(res'[w].url) IN
              /\ res'[w].status = "imported"
              /\ res'[w].metadata.url = store[article_id].url
              /\ store'[article_id].url = store[article_id].url ]_vars

RECURSIVE FirstOccurrences(_, _)
\* the links of the articles, in order, each link at its first place only;
\* before: the links that came earlier
FirstOccurrences(articles, before) ==
    IF articles = <<>> THEN <<>>
    ELSE LET link == Head(articles).link IN
         IF link \in before
         THEN FirstOccurrences(Tail(articles), before)
         ELSE <<link>> \o FirstOccurrences(Tail(articles), before \cup {link})

RECURSIVE IsSubsequence(_, _)
\* every value of part is in whole, in the same order
IsSubsequence(part, whole) ==
    IF part = <<>> THEN TRUE
    ELSE IF whole = <<>> THEN FALSE
    ELSE IF Head(part) = Head(whole)
    THEN IsSubsequence(Tail(part), Tail(whole))
    ELSE IsSubsequence(part, Tail(whole))

\* the sequence holds no value twice
NoRepeat(seq) == \A i, j \in 1..Len(seq) : seq[i] = seq[j] => i = j

\* C27: within one run(), each distinct URL that fetch returned is passed to
\* process_article at most once (a later duplicate in the batch is dropped),
\* the articles are processed one at a time in the order of the fetch, and the
\* primary oracle is called at most once per distinct URL.
C27_RunProcessesEachUrlOnce ==
    LET done == Len(run_state.fetched) - Len(run_state.articles)
        busy == frame["scheduler"].pc # "idle"
    IN  /\ NoRepeat(run_state.passed)
        /\ NoRepeat(run_state.analyzed)
        /\ run_state.passed = FirstOccurrences(SubSeq(run_state.fetched, 1, done), {})
        /\ IsSubsequence(run_state.analyzed, run_state.passed)
        /\ busy => /\ run_state.passed # <<>>
                   /\ frame["scheduler"].article.link =
                          run_state.passed[Len(run_state.passed)]

\* a run that was given the same URL twice and has returned: the URL was
\* handed to process_article once and scored once
C27_Witness ==
    /\ run_state.outcome = "returned"
    /\ Len(run_state.fetched) = 2
    /\ run_state.fetched[1].link = run_state.fetched[2].link
    /\ Len(run_state.passed) = 1
    /\ Len(run_state.analyzed) = 1

\* C28: every Relevance Judgment that reaches the store has a relevance score
\* and an impact score that are integers in 0..10, whatever the primary oracle
\* returned (out of range, no number, missing).
C28_StoredScoresInRange ==
    \A article_id \in DOMAIN store :
        /\ store[article_id].relevance_score \in 0..10
        /\ store[article_id].impact_score \in 0..10

\* verification is switched off in the configuration or has no API key
VerificationOff == ~config.verification.enabled \/ ~config.verification.api_key

\* C29: when verification is disabled in the configuration or no API key of
\* the reference model is set, no judgment is sampled, the reference model is
\* never called and the verification log never gets a line, whatever the
\* sampling rates and the scores.
C29_VerificationOffIsSilent ==
    VerificationOff =>
        /\ verification_log = <<>>
        /\ \A w \in Workers :
              /\ ~res[w].sampled
              /\ "reference" \notin res[w].steps
              /\ frame[w].pc # "idle" => ~frame[w].sampled

\* a call scored 7 or more and imported under a configuration with
\* verification off whose rates would sample every judgment
C29_Witness ==
    /\ VerificationOff
    /\ config.verification.rate_interesting = Scale
    /\ config.verification.rate_random = Scale
    /\ \E w \in Workers :
          /\ res[w].status = "imported"
          /\ res[w].metadata.relevance_score >= 7
          /\ "analyze_article" \in res[w].steps

\* the distance of two scores
Distance(a, b) == IF a >= b THEN a - b ELSE b - a

\* C30: test_prompt returns exactly one result per failure case, in order: a
\* case whose stored record or cached full text is not found gives an error
\* entry and the cases after it are still tested; every other case gives its
\* old, new and target score with improved true exactly when the new score is
\* strictly closer to the reference score than the old one.
C30_TestPromptOneResultPerCase ==
    [][ (OptimizerStep /\ optimizer'.op = "test_optimized_prompt") =>
          LET cases == get_failure_cases(verification_log, FailureLimit)
              results == optimizer'.results
          IN  /\ Len(results) = Len(cases)
              /\ \A i \in 1..Len(cases) :
                    LET case == cases[i]
                        result == results[i]
                    IN  IF \/ _article_id(case.article_url) \notin DOMAIN store
                           \/ case.article_url \notin DOMAIN cache
                        THEN "error" \in DOMAIN result
                        ELSE /\ result.old_score = case.local_score
                             /\ result.target_score = case.remote_score
                             /\ result.improved =
                                    (Distance(result.new_score, case.remote_score)
                                        < Distance(case.local_score, case.remote_score)) ]_vars

====
